---- MODULE Spec2Model ----
(***************************************************************************)
(* A model of scrape_da_an.py: the occupancy scraper of the Da-an sports   *)
(* centre (fetch with a browser, parse the page text, append to a CSV log  *)
(* or save a diagnostic snapshot).                                         *)
(*                                                                         *)
(* Text is modelled character by character.  A character is a TLA+ string; *)
(* the CJK characters of the source are written by their romanised names:  *)
(*   "Da" "An" "Yun" "Dong" "Zhong" "Xin"  for the six characters of       *)
(*   TARGET_CENTER,  "Ren" for the person unit that follows a count,       *)
(*   "You" "Yong" "Chi" for the pool label, "Jian" "Shen" "Fang" for the   *)
(*   gym label, "Jen" "Ai" for the first two characters of another venue,  *)
(*   "Shang" "Xian" for a two-character word between a count and a limit.  *)
(* Python's 0-based str.find (-1: absent) is modelled by 1-based Find      *)
(* (0: absent); slices s[a:b] become SubSeq(s, a, b-1) accordingly.        *)
(***************************************************************************)
EXTENDS Integers, Sequences, FiniteSets, TLC

VARIABLES
    pc,        \* position of the run inside main / fetch_with_playwright
    creds,     \* TRUE iff both TPSC_USER and TPSC_PASS are set
    page,      \* the document the browser page currently shows
    html,      \* the local html of fetch_with_playwright / main
    readings,  \* the local readings: [some |-> FALSE] is None
    csv,       \* the CSV log: [exists, lines]
    diag,      \* data/last_page.html: [exists, content]
    exit,      \* <<status>> once the process has ended, <<>> while it runs
    now,       \* the clock read by datetime.now (one tick per run)
    navs,      \* the URLs the browser navigated to in this run, in order
    closes,    \* how many times browser.close() ran in this run
    logins,    \* how many times try_login ran in this run
    raised,    \* TRUE iff a step of lines 108-142 raised in this run
    wrote,     \* which file the run wrote: "none", "csv", "diag"
    got,       \* the documents the browser obtained in this run
    csv0,      \* the CSV log as it was when the last recorder step began
    fresh,     \* TRUE iff the CSV log was absent when the behaviour began
    cpc,       \* overlapping append_csv executions: position of each
    hdr,       \* overlapping executions: each one's header_needed
    buf,       \* overlapping executions: each one's unflushed lines
    crs        \* overlapping executions: each one's readings argument

vars == <<pc, creds, page, html, readings, csv, diag, exit, now, navs,
          closes, logins, raised, wrote, got, csv0, fresh, cpc, hdr, buf, crs>>

fetchVars == <<creds, raised, navs, closes, logins, got>>
fileVars == <<csv, diag, csv0, fresh, wrote>>
concVars == <<cpc, hdr, buf, crs>>

-----------------------------------------------------------------------------
(* Bounds of the model *)

MaxNodes == 4      \* nodes of a page built for the parser
MaxRuns == 2       \* runs of main one after another on the same log
MaxCalls == 3      \* append_csv calls one after another on the same log
MaxCount == 40     \* largest current / capacity given to append_csv directly

-----------------------------------------------------------------------------
(* Characters and strings *)

Digits == {"0", "1", "2", "3", "4", "5", "6", "7", "8", "9"}

DigitVal(c) ==
    CASE c = "0" -> 0 [] c = "1" -> 1 [] c = "2" -> 2 [] c = "3" -> 3
      [] c = "4" -> 4 [] c = "5" -> 5 [] c = "6" -> 6 [] c = "7" -> 7
      [] c = "8" -> 8 [] c = "9" -> 9

Space == {" ", "\n"}

Min(S) == CHOOSE x \in S : \A y \in S : x <= y

TARGET_CENTER == <<"Da", "An", "Yun", "Dong", "Zhong", "Xin">>
CENTER_TOKEN == <<"Yun", "Dong", "Zhong", "Xin">>
OTHER_CENTER == <<"Jen", "Ai", "Yun", "Dong", "Zhong", "Xin">>
PERSON == "Ren"
POOL == <<"You", "Yong", "Chi">>
GYM == <<"Jian", "Shen", "Fang">>
SWIMMING_POOL == <<"S", "w", "i", "m", "m", "i", "n", "g", " ", "p", "o", "o", "l">>
FITNESS == <<"F", "i", "t", "n", "e", "s", "s">>
GYM_EN == <<"G", "y", "m">>
SOURCE_URL == "LocationPeopleNum"
ROOT_URL == "root"

Lookahead == 260

\* str.find(sub, start): the least index >= start at which sub occurs in s, 0 if none
Find(sub, s, start) ==
    LET hits == {i \in start..(Len(s) - Len(sub) + 1) :
                    \A k \in 1..Len(sub) : s[i + k - 1] = sub[k]}
    IN  IF hits = {} THEN 0 ELSE Min(hits)

\* the last index of the longest run of characters of S that starts at i (i-1: no run)
RunEnd(w, i, S) ==
    LET stops == {j \in i..Len(w) : w[j] \notin S}
    IN  IF stops = {} THEN Len(w) ELSE Min(stops) - 1

\* the last index of the longest run of non-digits [^0-9] that starts at i
NonDigitEnd(w, i) ==
    LET stops == {j \in i..Len(w) : w[j] \in Digits}
    IN  IF stops = {} THEN Len(w) ELSE Min(stops) - 1

\* int() of the digits w[a..b]
RECURSIVE ToInt(_, _, _)
ToInt(w, a, b) ==
    IF b < a THEN 0 ELSE ToInt(w, a, b - 1) * 10 + DigitVal(w[b])

\* The two patterns are matched piece by piece, each operator taking the
\* position the pieces before it have reached.  Every piece is greedy and the
\* character classes of adjacent pieces are disjoint, so backtracking finds
\* no other match than the greedy one.

\* the groups of a match: <<first of group 1, last of group 1, first of group 2,
\* last of group 2>>; <<>> is no match
StrictEnd(w, i, d1, s3, d2) == IF d2 >= s3 + 1 THEN <<i, d1, s3 + 1, d2>> ELSE <<>>

\* ... \s*(\d+) after the optional slash, which ends at sl
StrictCap(w, i, d1, s3) == StrictEnd(w, i, d1, s3, RunEnd(w, s3 + 1, Digits))

\* ... /? after the spaces that end at s2
StrictSlash(w, i, d1, s2) ==
    StrictCap(w, i, d1,
              RunEnd(w, (IF s2 + 1 <= Len(w) /\ w[s2 + 1] = "/" THEN s2 + 2 ELSE s2 + 1),
                     Space))

\* ... PERSON\s* after the spaces that end at s1
StrictPerson(w, i, d1, s1) ==
    IF s1 + 1 <= Len(w) /\ w[s1 + 1] = PERSON
    THEN StrictSlash(w, i, d1, RunEnd(w, s1 + 2, Space))
    ELSE <<>>

\* ... \s* after group 1, which ends at d1
StrictCur(w, i, d1) ==
    IF d1 >= i THEN StrictPerson(w, i, d1, RunEnd(w, d1 + 1, Space)) ELSE <<>>

\* (\d+)\s*PERSON\s*/?\s*(\d+) matched at position i
StrictAt(w, i) == StrictCur(w, i, RunEnd(w, i, Digits))

LooseEnd(w, i, d1, n, d2) == IF d2 >= n + 1 THEN <<i, d1, n + 1, d2>> ELSE <<>>

\* ... [^0-9]+(\d+) after PERSON at position p
LooseGap(w, i, d1, p, n) ==
    IF n >= p + 1 THEN LooseEnd(w, i, d1, n, RunEnd(w, n + 1, Digits)) ELSE <<>>

\* ... PERSON after the spaces that end at s1
LoosePerson(w, i, d1, s1) ==
    IF s1 + 1 <= Len(w) /\ w[s1 + 1] = PERSON
    THEN LooseGap(w, i, d1, s1 + 1, NonDigitEnd(w, s1 + 2))
    ELSE <<>>

LooseCur(w, i, d1) ==
    IF d1 >= i THEN LoosePerson(w, i, d1, RunEnd(w, d1 + 1, Space)) ELSE <<>>

\* (\d+)\s*PERSON[^0-9]+(\d+) matched at position i
LooseAt(w, i) == LooseCur(w, i, RunEnd(w, i, Digits))

\* re.search: the match at the leftmost position that has one
StrictFirst(w, hits) == IF hits = {} THEN <<>> ELSE StrictAt(w, Min(hits))
SearchStrict(w) == StrictFirst(w, {i \in 1..Len(w) : StrictAt(w, i) # <<>>})

LooseFirst(w, hits) == IF hits = {} THEN <<>> ELSE LooseAt(w, Min(hits))
SearchLoose(w) == LooseFirst(w, {i \in 1..Len(w) : LooseAt(w, i) # <<>>})

\* block[idx: idx + 260]
Window(block, idx) ==
    SubSeq(block, idx, IF idx + Lookahead - 1 < Len(block)
                       THEN idx + Lookahead - 1 ELSE Len(block))

\* int(m.group(1)), int(m.group(2))
Groups(w, m) == <<ToInt(w, m[1], m[2]), ToInt(w, m[3], m[4])>>

\* lines 26-30: the strict pattern first, the loose one only if it found nothing
FirstMatch(window, m1, m2) ==
    IF m1 # <<>> THEN Groups(window, m1)
    ELSE IF m2 # <<>> THEN Groups(window, m2)
    ELSE <<>>

SearchWindow(window) == FirstMatch(window, SearchStrict(window), SearchLoose(window))

\* lines 23-25: None when the label is absent, else search the window after it
NumbersAt(block, idx) == IF idx = 0 THEN <<>> ELSE SearchWindow(Window(block, idx))

\* _numbers_after: <<>> is None, else <<current, capacity>>
_numbers_after(label_text, block) == NumbersAt(block, Find(label_text, block, 1))

\* a or b, for values whose None is <<>> (a pair is always truthy)
OrElse(a, b) == IF a # <<>> THEN a ELSE b

-----------------------------------------------------------------------------
(* Pages: a document is a sequence of elements [tag, id, text] *)

Node(tag, id, text) == [tag |-> tag, id |-> id, text |-> text]

\* str.strip() of one text node
Strip(t) ==
    LET keep == {i \in 1..Len(t) : t[i] \notin Space}
    IN  IF keep = {} THEN <<>>
        ELSE SubSeq(t, Min(keep), CHOOSE j \in keep : \A k \in keep : k <= j)

\* soup.get_text(" ", strip=True): the stripped, non-empty strings joined by " "
RECURSIVE GetText(_)
GetText(doc) ==
    IF doc = <<>> THEN <<>>
    ELSE LET rest == GetText(Tail(doc))
             s == Strip(Head(doc).text)
         IN  IF s = <<>> THEN rest
             ELSE IF rest = <<>> THEN s
             ELSE s \o <<" ">> \o rest

Reading(ts, center, area, current, capacity) ==
    [ts |-> ts, center |-> center, area |-> area,
     current |-> current, capacity |-> capacity]

None == [some |-> FALSE, list |-> <<>>]
Some(l) == [some |-> TRUE, list |-> l]

\* `if readings:` -- None and the empty list are both falsy
Truthy(r) == r.some /\ r.list # <<>>

\* a block that is not cut at the next venue (a variant the claims must exclude)
BlockNoCut(text, start, next_idx) == SubSeq(text, start, Len(text))

\* text[start: next_idx] if next_idx != -1 else text[start:]
Block(text, start, next_idx) ==
    IF next_idx # 0 THEN SubSeq(text, start, next_idx - 1)
    ELSE SubSeq(text, start, Len(text))

\* lines 46, 48-50: the labels of an area in the order they are tried
PoolNumbers(block) ==
    OrElse(_numbers_after(POOL, block), _numbers_after(SWIMMING_POOL, block))

\* the English labels of the gym before the native one (a variant the claims
\* must exclude)
GymNumbersEnglishFirst(block) ==
    OrElse(_numbers_after(FITNESS, block),
           OrElse(_numbers_after(GYM_EN, block), _numbers_after(GYM, block)))

GymNumbers(block) ==
    OrElse(_numbers_after(GYM, block),
           OrElse(_numbers_after(FITNESS, block), _numbers_after(GYM_EN, block)))

\* lines 47, 51: a Reading when the area's numbers were found
AreaReading(ts, area, nums) ==
    IF nums # <<>> THEN <<Reading(ts, TARGET_CENTER, area, nums[1], nums[2])>> ELSE <<>>

\* lines 44-52
ParseBlock(block, ts) ==
    Some(AreaReading(ts, POOL, PoolNumbers(block)) \o AreaReading(ts, GYM, GymNumbers(block)))

\* lines 39-42
ParseFrom(text, start, ts) ==
    IF start = 0 THEN None
    ELSE ParseBlock(Block(text, start,
                          Find(CENTER_TOKEN, text, start + Len(TARGET_CENTER))), ts)

\* parse_readings_from_html(html) at clock ts: the first component of its result
\* (the second, text, is not used by any caller)
ParseText(text, ts) == ParseFrom(text, Find(TARGET_CENTER, text, 1), ts)

parse_readings_from_html(doc, ts) == ParseText(GetText(doc), ts)

-----------------------------------------------------------------------------
(* The recorder: append_csv *)

Header ==
    [kind |-> "header",
     cols |-> <<"timestamp", "center", "area", "current", "capacity", "occupancy_pct">>]

Row(r, pct) ==
    [kind |-> "row", ts |-> r.ts, center |-> r.center, area |-> r.area,
     current |-> r.current, capacity |-> r.capacity, pct |-> pct]

\* a header written on every call (a variant the claims must exclude)
HeaderAlways(f) == TRUE

\* line 56: not os.path.exists(path), taken before the file is opened
HeaderNeeded(f) == ~f.exists

\* an open that truncates, as mode "w" would (a variant the claims must exclude)
OpenTruncate(f) == [exists |-> TRUE, lines |-> <<>>]

\* open(path, "a"): creates the file when absent, keeps what it holds
OpenAppend(f) == [exists |-> TRUE, lines |-> f.lines]

\* a percentage cut to the hundredth below (a variant the claims must exclude)
PctFloor(current, capacity) ==
    IF capacity # 0 THEN {(current * 10000) \div capacity} ELSE {0}

\* (r.current / r.capacity * 100.0) if r.capacity else 0.0, formatted :.2f, in
\* hundredths.  The double is formatted to its nearest hundredth; when the exact
\* quotient lies half way between two hundredths the rounding error of the two
\* floating-point operations decides, so both neighbours are possible.
Pct(current, capacity) ==
    IF capacity # 0
    THEN LET x == current * 10000
             q == x \div capacity
             r == x % capacity
         IN  IF 2 * r < capacity THEN {q}
             ELSE IF 2 * r > capacity THEN {q + 1}
             ELSE {q, q + 1}
    ELSE {0}

\* the rows the loop of append_csv writes, one per reading, in order
RECURSIVE RowSeqs(_)
RowSeqs(rs) ==
    IF rs = <<>> THEN {<<>>}
    ELSE {<<Row(Head(rs), p)>> \o rest :
             p \in Pct(Head(rs).current, Head(rs).capacity),
             rest \in RowSeqs(Tail(rs))}

\* append_csv(path, readings): the contents the file can have afterwards
append_csv(f, rs) ==
    {[exists |-> TRUE,
      lines |-> OpenAppend(f).lines
                \o (IF HeaderNeeded(f) THEN <<Header>> ELSE <<>>)
                \o rows] : rows \in RowSeqs(rs)}

-----------------------------------------------------------------------------
(* The parser on bounded pages: pages are built node by node from NodeVocab *)
(* and then handed to parse_readings_from_html.                            *)

Chars(n) ==
    CASE n = 0 -> <<"0">> [] n = 5 -> <<"5">> [] n = 7 -> <<"7">> [] n = 8 -> <<"8">>
      [] n = 13 -> <<"1", "3">> [] n = 120 -> <<"1", "2", "0">>
      [] n = 200 -> <<"2", "0", "0">> [] n = 250 -> <<"2", "5", "0">>

\* "<label> <n>PERSON/<m>"
Entry(label, n, m) == label \o <<" ">> \o Chars(n) \o <<PERSON, "/">> \o Chars(m)
\* "<label> <n>PERSON": a current count with no capacity
Partial(label, n) == label \o <<" ">> \o Chars(n) \o <<PERSON>>

NTarget == Node("h3", "", TARGET_CENTER)
NOther == Node("h3", "", OTHER_CENTER)
NPool == Node("div", "", Entry(POOL, 13, 250))
NGym == Node("div", "", Entry(GYM, 8, 120))
NPoolPartial == Node("div", "", Partial(POOL, 13))
NPoolZero == Node("div", "", Entry(POOL, 5, 0))
\* "<pool label> 13PERSON <two more characters> 250": only the loose pattern matches
NPoolLoose ==
    Node("div", "", POOL \o <<" ">> \o Chars(13) \o <<PERSON, " ", "Shang", "Xian", " ">>
                    \o Chars(250))
NGymEn == Node("div", "", Entry(GYM_EN, 7, 200))
NCurSw == Node("span", "CurSwPNum_DASC", Chars(7))
NMaxSw == Node("span", "MaxSwPNum_DASC", Chars(200))
NUser == Node("input_text", "", <<>>)
NPass == Node("input_password", "", <<>>)

NodeVocab ==
    {NTarget, NOther, NPool, NGym, NPoolPartial, NPoolZero, NPoolLoose, NGymEn,
     NCurSw, NMaxSw}

Absent == [exists |-> FALSE, lines |-> <<>>]

InitFetch ==
    /\ creds = FALSE /\ raised = FALSE
    /\ navs = <<>> /\ closes = 0 /\ logins = 0 /\ got = {}
InitFiles ==
    /\ csv = Absent /\ csv0 = Absent /\ fresh = TRUE /\ wrote = "none"
    /\ diag = [exists |-> FALSE, content |-> <<>>]
InitConc == cpc = <<>> /\ hdr = <<>> /\ buf = <<>> /\ crs = <<>>

InitParse ==
    /\ pc = "build" /\ html = <<>> /\ readings = None
    /\ page = <<>> /\ exit = <<>> /\ now = 0
    /\ InitFetch /\ InitFiles /\ InitConc

AddNode(n) ==
    /\ pc = "build"
    /\ Len(html) < MaxNodes
    /\ html' = Append(html, n)
    /\ UNCHANGED <<pc, page, readings, exit, now, fetchVars, fileVars,
                   concVars>>

ParsePage ==
    /\ pc = "build"
    /\ readings' = parse_readings_from_html(html, now)
    /\ pc' = "parsed"
    /\ UNCHANGED <<page, html, exit, now, fetchVars, fileVars, concVars>>

NextParse ==
    \/ \E n \in NodeVocab : AddNode(n)
    \/ ParsePage

SpecParse == InitParse /\ [][NextParse]_vars

-----------------------------------------------------------------------------
(* One run of main after another: fetch_with_playwright step by step, then *)
(* the recorder or the diagnostic snapshot.                                *)

LOGIN == <<"L", "o", "g", "i", "n">>
NLoginLink == Node("a", "", LOGIN)

PageBlank == <<>>
PageData == <<NTarget, NPool, NGym>>
PageZero == <<NTarget, NPoolZero>>
PageNameOnly == <<NTarget>>
PageIds == <<NCurSw, NMaxSw>>
PageWall == <<NUser, NPass>>
PageOther == <<NOther, NPool>>
PageHome == <<NLoginLink>>

\* what the site can answer at SOURCE_URL and at the site root
TargetPages == {PageData, PageZero, PageNameOnly, PageIds, PageWall, PageOther}
RootPages == {PageHome, PageWall}

\* main returns (line 175); sys.exit(2), line 162
ExitOk == 0
ExitHard == 2

\* a no-data run reported like a hard failure (a variant the claims must exclude)
ExitNoDataAsHard == ExitHard

\* sys.exit(0), line 170
ExitNoData == 0

\* acc.count() and pw.count()
HasLoginForm(doc) ==
    /\ \E i \in 1..Len(doc) : doc[i].tag = "input_text"
    /\ \E i \in 1..Len(doc) : doc[i].tag = "input_password"

\* page.get_by_text("Login", exact=False) finds an element
HasLoginText(doc) == \E i \in 1..Len(doc) : Find(LOGIN, doc[i].text, 1) # 0

\* the document after a navigation that raised: the old one or an empty one
AfterFailedGoto(doc) == {doc, PageBlank}

InitRun ==
    /\ pc = "start" /\ html = <<>> /\ readings = None
    /\ page = PageBlank /\ exit = <<>> /\ now = 1
    /\ creds \in BOOLEAN /\ raised = FALSE
    /\ navs = <<>> /\ closes = 0 /\ logins = 0 /\ got = {}
    /\ InitFiles /\ InitConc

\* line 98: page.goto(SOURCE_URL) succeeds
Goto1 ==
    /\ pc = "start"
    /\ \E d \in TargetPages : page' = d /\ got' = got \cup {d}
    /\ navs' = Append(navs, SOURCE_URL)
    /\ pc' = "parse1"
    /\ UNCHANGED <<html, readings, exit, now, creds, raised, closes, logins,
                   fileVars, concVars>>

\* lines 98, 158-162: the first navigation raises; main catches and exits 2
Goto1Fail ==
    /\ pc = "start"
    /\ page' \in AfterFailedGoto(page)
    /\ navs' = Append(navs, SOURCE_URL)
    /\ exit' = <<ExitHard>>
    /\ pc' = "done"
    /\ UNCHANGED <<html, readings, now, creds, raised, closes, logins, got,
                   fileVars, concVars>>

\* lines 100-104, readings found: close the browser and return
Parse1Found ==
    /\ pc = "parse1"
    /\ Truthy(parse_readings_from_html(page, now))
    /\ html' = page
    /\ readings' = parse_readings_from_html(page, now)
    /\ closes' = closes + 1
    /\ pc' = "main"
    /\ UNCHANGED <<page, exit, now, creds, raised, navs, logins, got,
                   fileVars, concVars>>

\* lines 100-102 and 107, no readings: go on to the login attempt or to line 148
Parse1Empty ==
    /\ pc = "parse1"
    /\ ~Truthy(parse_readings_from_html(page, now))
    /\ html' = page
    /\ readings' = parse_readings_from_html(page, now)
    /\ pc' = IF creds THEN "login1" ELSE "bad"
    /\ UNCHANGED <<page, exit, now, fetchVars, fileVars, concVars>>

\* lines 113-121: try_login fills the form and submits; the site answers
TryLoginSubmit(from, to) ==
    /\ pc = from
    /\ HasLoginForm(page)
    /\ logins' = logins + 1
    /\ \E d \in {page, PageHome} : page' = d /\ got' = got \cup {d}
    /\ pc' = to
    /\ UNCHANGED <<html, readings, exit, now, creds, raised, navs, closes,
                   fileVars, concVars>>

\* lines 116-120, 143: fill, Enter or the network-idle wait raises
TryLoginRaise(from) ==
    /\ pc = from
    /\ HasLoginForm(page)
    /\ logins' = logins + 1
    /\ raised' = TRUE
    /\ pc' = "bad"
    /\ UNCHANGED <<page, html, readings, exit, now, creds, navs, closes, got,
                   fileVars, concVars>>

\* line 122: no form on the page, try_login returns False
TryLoginNoForm(from, to) ==
    /\ pc = from
    /\ ~HasLoginForm(page)
    /\ logins' = logins + 1
    /\ pc' = to
    /\ UNCHANGED <<page, html, readings, exit, now, creds, raised, navs, closes, got,
                   fileVars, concVars>>

\* line 126: navigate to the site root
GotoRoot ==
    /\ pc = "root"
    /\ \E d \in RootPages : page' = d /\ got' = got \cup {d}
    /\ navs' = Append(navs, ROOT_URL)
    /\ pc' = "click"
    /\ UNCHANGED <<html, readings, exit, now, creds, raised, closes, logins,
                   fileVars, concVars>>

GotoRootFail ==
    /\ pc = "root"
    /\ page' \in AfterFailedGoto(page)
    /\ navs' = Append(navs, ROOT_URL)
    /\ raised' = TRUE
    /\ pc' = "bad"
    /\ UNCHANGED <<html, readings, exit, now, creds, closes, logins, got,
                   fileVars, concVars>>

\* lines 129-131: the Login element is clicked and the site shows its form
ClickLogin ==
    /\ pc = "click"
    /\ HasLoginText(page)
    /\ \E d \in {page, PageWall} : page' = d /\ got' = got \cup {d}
    /\ pc' = "login2"
    /\ UNCHANGED <<html, readings, exit, now, creds, raised, navs, closes, logins,
                   fileVars, concVars>>

\* lines 132-133: the click raises (no such element, timeout) and is ignored
ClickIgnored ==
    /\ pc = "click"
    /\ pc' = "login2"
    /\ UNCHANGED <<page, html, readings, exit, now, fetchVars, fileVars,
                   concVars>>

\* line 137: navigate to the target page again
Goto2 ==
    /\ pc = "goto2"
    /\ \E d \in TargetPages : page' = d /\ got' = got \cup {d}
    /\ navs' = Append(navs, SOURCE_URL)
    /\ pc' = "parse2"
    /\ UNCHANGED <<html, readings, exit, now, creds, raised, closes, logins,
                   fileVars, concVars>>

\* the exception of the second navigation to the target page leaves
\* fetch_with_playwright (a variant the claims must exclude)
Goto2FailUncaught ==
    /\ pc = "goto2"
    /\ page' \in AfterFailedGoto(page)
    /\ navs' = Append(navs, SOURCE_URL)
    /\ raised' = TRUE
    /\ exit' = <<ExitHard>>
    /\ pc' = "done"
    /\ UNCHANGED <<html, readings, now, creds, closes, logins, got,
                   fileVars, concVars>>

Goto2Fail ==
    /\ pc = "goto2"
    /\ page' \in AfterFailedGoto(page)
    /\ navs' = Append(navs, SOURCE_URL)
    /\ raised' = TRUE
    /\ pc' = "bad"
    /\ UNCHANGED <<html, readings, exit, now, creds, closes, logins, got,
                   fileVars, concVars>>

\* lines 139-142: parse again, close the browser, return whatever was parsed
Parse2 ==
    /\ pc = "parse2"
    /\ html' = page
    /\ readings' = parse_readings_from_html(page, now)
    /\ closes' = closes + 1
    /\ pc' = "main"
    /\ UNCHANGED <<page, exit, now, creds, raised, navs, logins, got,
                   fileVars, concVars>>

\* the browser is left open on the way out of lines 148-150 (a variant the
\* claims must exclude)
ReturnBadNoClose ==
    /\ pc = "bad"
    /\ html' = page
    /\ readings' = None
    /\ pc' = "main"
    /\ UNCHANGED <<page, exit, now, fetchVars, fileVars, concVars>>

\* lines 148-150: return the page as it is, and None
ReturnBad ==
    /\ pc = "bad"
    /\ html' = page
    /\ readings' = None
    /\ closes' = closes + 1
    /\ pc' = "main"
    /\ UNCHANGED <<page, exit, now, creds, raised, navs, logins, got,
                   fileVars, concVars>>

\* lines 165-170: nothing parsed, overwrite data/last_page.html and exit 0
MainNoData ==
    /\ pc = "main"
    /\ ~Truthy(readings)
    /\ diag' = [exists |-> TRUE, content |-> html]
    /\ wrote' = "diag"
    /\ csv0' = csv
    /\ exit' = <<ExitNoData>>
    /\ pc' = "done"
    /\ UNCHANGED <<page, html, readings, now, fetchVars, csv, fresh, concVars>>

\* the recording run overwrites the snapshot too (a variant the claims must
\* exclude)
MainRecordWithSnapshot ==
    /\ pc = "main"
    /\ Truthy(readings)
    /\ csv' \in append_csv(csv, readings.list)
    /\ diag' = [exists |-> TRUE, content |-> html]
    /\ wrote' = "csv"
    /\ csv0' = csv
    /\ exit' = <<ExitOk>>
    /\ pc' = "done"
    /\ UNCHANGED <<page, html, readings, now, fetchVars, fresh, concVars>>

\* lines 172-175: append the readings to the log; main returns
MainRecord ==
    /\ pc = "main"
    /\ Truthy(readings)
    /\ csv' \in append_csv(csv, readings.list)
    /\ wrote' = "csv"
    /\ csv0' = csv
    /\ exit' = <<ExitOk>>
    /\ pc' = "done"
    /\ UNCHANGED <<page, html, readings, now, fetchVars, diag, fresh, concVars>>

\* the external scheduler starts the next run; both files stay as they are
NewRun ==
    /\ pc = "done"
    /\ now < MaxRuns
    /\ now' = now + 1
    /\ pc' = "start" /\ html' = <<>> /\ readings' = None
    /\ page' = PageBlank /\ exit' = <<>>
    /\ creds' \in BOOLEAN /\ raised' = FALSE
    /\ navs' = <<>> /\ closes' = 0 /\ logins' = 0 /\ got' = {}
    /\ wrote' = "none"
    /\ UNCHANGED <<csv, diag, csv0, fresh, concVars>>

Next ==
    \/ Goto1 \/ Goto1Fail \/ Parse1Found \/ Parse1Empty
    \/ TryLoginSubmit("login1", "goto2") \/ TryLoginRaise("login1")
    \/ TryLoginNoForm("login1", "root")
    \/ GotoRoot \/ GotoRootFail \/ ClickLogin \/ ClickIgnored
    \/ TryLoginSubmit("login2", "goto2") \/ TryLoginRaise("login2")
    \/ TryLoginNoForm("login2", "goto2")
    \/ Goto2 \/ Goto2Fail \/ Parse2 \/ ReturnBad
    \/ MainNoData \/ MainRecord \/ NewRun

Spec == InitRun /\ [][Next]_vars

-----------------------------------------------------------------------------
(* append_csv called again and again on one path, each call running to its *)
(* end before the next begins.                                             *)

R_POOL == Reading(1, TARGET_CENTER, POOL, 13, 250)
R_GYM == Reading(1, TARGET_CENTER, GYM, 8, 120)

\* the readings lists handed to append_csv
SeqArgs ==
    {<<>>, <<R_POOL>>, <<R_GYM>>, <<R_POOL, R_GYM>>, <<R_GYM, R_POOL>>,
     <<R_POOL, R_POOL>>}

\* a log that is there before the first call: empty, or a header and a row
OldLogs ==
    {[exists |-> TRUE, lines |-> <<>>],
     [exists |-> TRUE, lines |-> <<Header, Row(R_GYM, 667)>>]}

InitCalls(logs) ==
    /\ pc = "call" /\ html = <<>> /\ readings = None
    /\ page = <<>> /\ exit = <<>> /\ now = 0
    /\ InitFetch /\ InitConc
    /\ csv \in logs
    /\ csv0 = csv /\ fresh = ~csv.exists /\ wrote = "none"
    /\ diag = [exists |-> FALSE, content |-> <<>>]

InitSeq == InitCalls({Absent} \cup OldLogs)

\* one call append_csv(path, rs), lines 54-62
AppendCsv(rs) ==
    /\ pc = "call"
    /\ now < MaxCalls
    /\ csv' \in append_csv(csv, rs)
    /\ csv0' = csv
    /\ readings' = Some(rs)
    /\ now' = now + 1
    /\ wrote' = "csv"
    /\ UNCHANGED <<pc, page, html, exit, fetchVars, diag, fresh, concVars>>

NextSeq == \E rs \in SeqArgs : AppendCsv(rs)

SpecSeq == InitSeq /\ [][NextSeq]_vars

(* One call of append_csv on an absent path with one reading of any counts. *)

AppendOne(current, capacity) ==
    /\ now = 0
    /\ AppendCsv(<<Reading(1, TARGET_CENTER, POOL, current, capacity)>>)

NextPct == \E current \in 0..MaxCount, capacity \in 0..MaxCount : AppendOne(current, capacity)

InitPct == InitCalls({Absent})

SpecPct == InitPct /\ [][NextPct]_vars

-----------------------------------------------------------------------------
(* Two executions of append_csv on one path that overlap, step by step.    *)
(* The text stream returned by open() is buffered: what f.write is given   *)
(* reaches the file when the stream is flushed, at the latest when the     *)
(* with-block closes it.                                                   *)

Procs == {1, 2}

ConcArgs == {<<>>, <<R_POOL>>, <<R_POOL, R_GYM>>}

InitOverlap ==
    /\ pc = "overlap" /\ html = <<>> /\ readings = None
    /\ page = <<>> /\ exit = <<>> /\ now = 0
    /\ InitFetch /\ InitFiles
    /\ cpc = [p \in Procs |-> "check"]
    /\ hdr = [p \in Procs |-> FALSE]
    /\ buf = [p \in Procs |-> <<>>]
    /\ crs \in [Procs -> ConcArgs]

\* lines 55-56: header_needed = not os.path.exists(path)
CCheck(p) ==
    /\ cpc[p] = "check"
    /\ hdr' = [hdr EXCEPT ![p] = HeaderNeeded(csv)]
    /\ cpc' = [cpc EXCEPT ![p] = "open"]
    /\ UNCHANGED <<pc, page, html, readings, exit, now, fetchVars, fileVars,
                   buf, crs>>

\* line 57: open(path, "a")
COpen(p) ==
    /\ cpc[p] = "open"
    /\ csv' = OpenAppend(csv)
    /\ cpc' = [cpc EXCEPT ![p] = "header"]
    /\ UNCHANGED <<pc, page, html, readings, exit, now, fetchVars, diag, csv0, fresh,
                   wrote, hdr, buf, crs>>

\* lines 58-59: the header, when header_needed
CHeader(p) ==
    /\ cpc[p] = "header"
    /\ buf' = [buf EXCEPT ![p] = IF hdr[p] THEN Append(@, Header) ELSE @]
    /\ cpc' = [cpc EXCEPT ![p] = "rows"]
    /\ UNCHANGED <<pc, page, html, readings, exit, now, fetchVars, fileVars,
                   hdr, crs>>

\* lines 60-62: the row of the next reading
CRow(p) ==
    /\ cpc[p] = "rows"
    /\ crs[p] # <<>>
    /\ \E rows \in RowSeqs(<<Head(crs[p])>>) : buf' = [buf EXCEPT ![p] = @ \o rows]
    /\ crs' = [crs EXCEPT ![p] = Tail(@)]
    /\ UNCHANGED <<pc, page, html, readings, exit, now, fetchVars, fileVars,
                   cpc, hdr>>

\* the stream writes its buffer to the file before it is closed
CFlush(p) ==
    /\ cpc[p] = "rows"
    /\ buf[p] # <<>>
    /\ csv' = [csv EXCEPT !.lines = @ \o buf[p]]
    /\ buf' = [buf EXCEPT ![p] = <<>>]
    /\ UNCHANGED <<pc, page, html, readings, exit, now, fetchVars, diag, csv0, fresh,
                   wrote, cpc, hdr, crs>>

\* the end of the with-block: the stream is flushed and closed
CClose(p) ==
    /\ cpc[p] = "rows"
    /\ crs[p] = <<>>
    /\ csv' = [csv EXCEPT !.lines = @ \o buf[p]]
    /\ buf' = [buf EXCEPT ![p] = <<>>]
    /\ cpc' = [cpc EXCEPT ![p] = "done"]
    /\ UNCHANGED <<pc, page, html, readings, exit, now, fetchVars, diag, csv0, fresh,
                   wrote, hdr, crs>>

NextOverlap ==
    \E p \in Procs :
        CCheck(p) \/ COpen(p) \/ CHeader(p) \/ CRow(p) \/ CFlush(p) \/ CClose(p)

SpecOverlap == InitOverlap /\ [][NextOverlap]_vars

-----------------------------------------------------------------------------
(* Properties *)

HeaderCount(lines) == Cardinality({i \in 1..Len(lines) : lines[i] = Header})

Abs(x) == IF x < 0 THEN -x ELSE x

\* C1: a call of append_csv on an absent path creates the file with exactly one
\* header row, as its first line; a call on a path that exists adds no header
\* row; so a log that began absent holds exactly one header row, its first line.
C1_IdempotentHeader ==
    /\ (now > 0 /\ ~csv0.exists) =>
          /\ csv.exists
          /\ HeaderCount(csv.lines) = 1
          /\ csv.lines[1] = Header
    /\ (now > 0 /\ csv0.exists) => HeaderCount(csv.lines) = HeaderCount(csv0.lines)
    /\ (fresh /\ csv.exists) => (HeaderCount(csv.lines) = 1 /\ csv.lines[1] = Header)

C1_Witness ==
    /\ fresh /\ now >= 2 /\ csv0.exists
    /\ Len(csv.lines) > Len(csv0.lines) /\ Len(csv0.lines) > 1

\* line is the row of reading r, whatever its percentage
RowOf(line, r) == line.kind = "row" /\ line = Row(r, line.pct)

\* C2: append_csv only appends: what the file held before the call is a prefix
\* of what it holds after it, and what is added is the header (if the file was
\* absent) and then one row per reading of the call, in the order of the list.
C2_AppendOnly ==
    now > 0 =>
        /\ Len(csv.lines) =
               Len(csv0.lines) + (IF csv0.exists THEN 0 ELSE 1) + Len(readings.list)
        /\ SubSeq(csv.lines, 1, Len(csv0.lines)) = csv0.lines
        /\ ~csv0.exists => csv.lines[1] = Header
        /\ \A i \in 1..Len(readings.list) :
              RowOf(csv.lines[Len(csv.lines) - Len(readings.list) + i], readings.list[i])

C2_Witness ==
    /\ now >= 2 /\ Len(csv0.lines) >= 2 /\ Len(readings.list) = 2
    /\ readings.list[1] # readings.list[2]

AllClosed == \A p \in Procs : cpc[p] = "done"

\* C3 as claimed: after two overlapping executions of append_csv on a path that
\* began absent, the file holds exactly one header row.
C3_OneHeaderWhenOverlapping ==
    (pc = "overlap" /\ AllClosed) => HeaderCount(csv.lines) = 1

\* C3 as amended: after two overlapping executions of append_csv on a path that
\* began absent, the file holds one header row for each execution that tested
\* the path before the file was created: at least one and at most two, and
\* exactly one when only one execution made its test that early.
C3_HeaderPerEarlyCheck ==
    (pc = "overlap" /\ AllClosed) =>
        /\ HeaderCount(csv.lines) = Cardinality({p \in Procs : hdr[p]})
        /\ HeaderCount(csv.lines) >= 1
        /\ HeaderCount(csv.lines) <= 2

C3_Witness ==
    /\ pc = "overlap" /\ AllClosed
    /\ HeaderCount(csv.lines) = 2
    /\ Len(csv.lines) = 6

\* the page text, the place of the target venue's name in it, and the place of
\* the next venue-boundary token after that name (0: none)
TextOf == GetText(html)
Anchor == Find(TARGET_CENTER, TextOf, 1)
Boundary ==
    IF Anchor = 0 THEN 0 ELSE Find(CENTER_TOKEN, TextOf, Anchor + Len(TARGET_CENTER))
BeforeBoundary == SubSeq(TextOf, 1, Boundary - 1)
AfterBoundary == SubSeq(TextOf, Boundary, Len(TextOf))

\* the numbers that can be read from digits of s standing next to each other
NumsIn(s) ==
    {ToInt(s, sp[1], sp[2]) :
        sp \in {q \in (1..Len(s)) \X (1..Len(s)) :
                   q[1] <= q[2] /\ \A k \in q[1]..q[2] : s[k] \in Digits}}

ExamplePage == <<NTarget, NPool, NGym, NOther>>

\* C4: when the target venue's name is followed by a later venue-boundary token,
\* every current and capacity returned is read from digits that stand before
\* that token; and the two-venue example yields exactly pool 13/250 and
\* gym 8/120 for the target venue.
C4_WindowIsolation ==
    pc = "parsed" =>
        /\ Boundary # 0 =>
              \A i \in 1..Len(readings.list) :
                 /\ readings.list[i].current \in NumsIn(BeforeBoundary)
                 /\ readings.list[i].capacity \in NumsIn(BeforeBoundary)
        /\ html = ExamplePage =>
              readings = Some(<<Reading(now, TARGET_CENTER, POOL, 13, 250),
                                Reading(now, TARGET_CENTER, GYM, 8, 120)>>)

C4_Witness ==
    /\ pc = "parsed" /\ Boundary # 0
    /\ Len(readings.list) >= 1
    /\ NumsIn(AfterBoundary) \ NumsIn(BeforeBoundary) # {}

\* the labels of the two tracked areas
AreaLabels(area) == IF area = POOL THEN {POOL, SWIMMING_POOL} ELSE {GYM, FITNESS, GYM_EN}
OtherArea(area) == IF area = POOL THEN GYM ELSE POOL

\* the venue window of the page text
VenueBlock == IF Anchor = 0 THEN <<>> ELSE Block(TextOf, Anchor, Boundary)

\* the text of an area: from its label to the next label of the other area, or
\* to the end of the venue window
AreaFrom(block, idx, ends) ==
    IF idx = 0 THEN <<>>
    ELSE SubSeq(block, idx, IF ends = {} THEN Len(block) ELSE Min(ends) - 1)

AreaText(block, area) ==
    AreaFrom(block, Find(area, block, 1),
             {Find(o, block, Find(area, block, 1) + Len(area)) :
                 o \in AreaLabels(OtherArea(area))} \ {0})

\* s holds one number only, and that number is a current count "N PERSON"
OnlyCurrent(s) ==
    /\ Cardinality({i \in 1..Len(s) :
                      s[i] \in Digits /\ (i = 1 \/ s[i - 1] \notin Digits)}) = 1
    /\ \A i \in 1..Len(s) :
          (s[i] \in Digits /\ (i = 1 \/ s[i - 1] \notin Digits)) =>
              /\ RunEnd(s, RunEnd(s, i, Digits) + 1, Space) + 1 <= Len(s)
              /\ s[RunEnd(s, RunEnd(s, i, Digits) + 1, Space) + 1] = PERSON

\* C5 as claimed: when the text of an area holds a current count and no capacity,
\* no Reading is returned for that area.
C5_PartialDiscard ==
    (pc = "parsed" /\ readings.some) =>
        \A area \in {POOL, GYM} :
           OnlyCurrent(AreaText(VenueBlock, area)) =>
               \A i \in 1..Len(readings.list) : readings.list[i].area # area

CountIds ==
    {"CurSwPNum_DASC", "MaxSwPNum_DASC", "CurGymPNum_DASC", "MaxGymPNum_DASC"}

NoVenue(doc) == Find(TARGET_CENTER, GetText(doc), 1) = 0
NoIds(doc) == \A i \in 1..Len(doc) : doc[i].id \notin CountIds

\* every page the run obtained (and it obtained one) lacks the venue and the ids
TotalFailure == got # {} /\ \A d \in got : NoVenue(d) /\ NoIds(d)

\* C6: a run all of whose pages lack the target venue's name and the element ids
\* parses no readings, writes the last document of the browser to the
\* diagnostic path, leaves the CSV log as it was, and ends with status 0.
C6_TotalFailureSoft ==
    (pc = "done" /\ TotalFailure) =>
        /\ ~Truthy(readings)
        /\ wrote = "diag"
        /\ diag = [exists |-> TRUE, content |-> page]
        /\ csv = csv0
        /\ exit = <<0>>

C6_Witness ==
    /\ pc = "done" /\ TotalFailure
    /\ logins > 0 /\ Len(navs) = 3
    /\ diag.content = PageWall

\* C7 as claimed: the exit status of a finished run tells which of the three
\* outcomes it had: data written, no data with the snapshot saved, hard failure.
C7_DistinctExitSignals ==
    pc = "done" =>
        /\ (exit = <<ExitOk>>) <=> (wrote = "csv")
        /\ (exit = <<ExitNoData>>) <=> (wrote = "diag")
        /\ (exit = <<ExitHard>>) <=> (wrote = "none")

\* C8: in every row written for a reading with capacity > 0 the percentage is
\* current / capacity * 100 rounded to a nearest hundredth; with capacity 0 it
\* is 0.00.
C8_OccupancyPct ==
    \A i \in 1..Len(csv.lines) :
       csv.lines[i].kind = "row" =>
          IF csv.lines[i].capacity > 0
          THEN 2 * Abs(csv.lines[i].pct * csv.lines[i].capacity
                       - csv.lines[i].current * 10000) <= csv.lines[i].capacity
          ELSE csv.lines[i].pct = 0

C8_Witness ==
    /\ now = 1 /\ Len(csv.lines) = 2
    /\ csv.lines[2].current = 2 /\ csv.lines[2].capacity = 3
    /\ csv.lines[2].pct = 6667

\* C9 as claimed: no run appends a row whose capacity is 0 or whose current is
\* negative.
C9_NoInvalidRow ==
    \A i \in 1..Len(csv.lines) :
       csv.lines[i].kind = "row" =>
          (csv.lines[i].capacity > 0 /\ csv.lines[i].current >= 0)

\* C10 as claimed: the page with the elements CurSwPNum_DASC (7) and
\* MaxSwPNum_DASC (200) and no gym element yields exactly one Reading, pool 7/200.
C10_DomIdExtraction ==
    (pc = "parsed" /\ html = PageIds) =>
        /\ Len(readings.list) = 1
        /\ readings.list[1].area = POOL
        /\ readings.list[1].current = 7
        /\ readings.list[1].capacity = 200

-----------------------------------------------------------------------------
(* The fetch strategies of one run.                                        *)

\* positions of a run at which html still holds the first rendered page
InLogin == pc \in {"login1", "root", "click", "login2", "goto2", "parse2", "bad"}

\* a login step was executed: the form was submitted (the run goes on to line
\* 137), or the browser navigated again after its first navigation
LoginStepTaken == logins > 0 /\ (pc = "goto2" \/ Len(navs) >= 2)

\* C11 as claimed: a login step is executed only in a run that has both
\* credentials and whose first rendered page lacks the target venue's name.
C11_LoginOnlyWithoutVenue ==
    (InLogin /\ LoginStepTaken) => (creds /\ NoVenue(html))

\* C12 as claimed: a run ends as a hard failure only when no fetch strategy
\* was left to try: it has no credentials, or the login attempt was made.
C12_FailuresEscalate ==
    (pc = "done" /\ exit = <<ExitHard>>) => (~creds \/ logins > 0)

\* C13: once a step of the login attempt has raised, the function returns the
\* document the page shows and no readings, and the run ends as a no-data run:
\* that document is written to the diagnostic path, the CSV log stays as it
\* was, and the status is that of a no-data run, never that of a hard failure.
C13_LoginExceptionsCaught ==
    raised =>
        /\ exit # <<ExitHard>>
        /\ wrote # "csv"
        /\ pc \in {"bad", "main", "done"}
        /\ pc \in {"main", "done"} => (html = page /\ readings = None)
        /\ pc = "done" =>
              /\ wrote = "diag"
              /\ diag = [exists |-> TRUE, content |-> page]
              /\ csv = csv0
              /\ exit = <<ExitNoData>>

\* the second try_login raised, after the navigation to the site root
C13_Witness ==
    /\ pc = "done" /\ raised
    /\ logins = 2 /\ navs = <<SOURCE_URL, ROOT_URL>>

\* C14 as claimed: the browser has navigated to the site root before each of
\* its navigations to the target page, so the first page it loads is the root.
C14_RootBeforeTarget ==
    \A i \in 1..Len(navs) :
       navs[i] = SOURCE_URL => \E j \in 1..(i - 1) : navs[j] = ROOT_URL

C15_Step ==
    /\ pc # "main" => (csv' = csv /\ diag' = diag)
    /\ pc = "main" =>
          \/ /\ Truthy(readings)
             /\ csv'.exists /\ Len(csv'.lines) > Len(csv.lines)
             /\ diag' = diag
             /\ wrote' = "csv"
          \/ /\ ~Truthy(readings)
             /\ diag' = [exists |-> TRUE, content |-> html]
             /\ csv' = csv
             /\ wrote' = "diag"
    /\ exit' = <<ExitHard>> => (pc = "start" /\ wrote' = "none")

\* C15: the files are written by one step only, taken after the fetch has
\* returned: with readings it appends to the CSV log and leaves the snapshot as
\* it was, with None or no readings it overwrites the snapshot and leaves the
\* CSV log as it was; a hard failure writes neither file.
C15_ThreeOutcomes == [][C15_Step]_vars

\* a run that appended rows while the snapshot of the run before it exists
C15_Witness ==
    /\ pc = "done" /\ now = 2
    /\ wrote = "csv" /\ csv # csv0
    /\ diag.exists

\* the text from a label of an area to the next label of the other area
LabelText(block, label, area) ==
    AreaFrom(block, Find(label, block, 1),
             {Find(o, block, Find(label, block, 1) + Len(label)) :
                 o \in AreaLabels(OtherArea(area))} \ {0})

\* C16 as claimed: the current and the capacity of a Reading are read from the
\* text between a label of its area and the next label of the other area.
C16_AreaIsolation ==
    (pc = "parsed" /\ readings.some) =>
        \A i \in 1..Len(readings.list) :
           \E label \in AreaLabels(readings.list[i].area) :
              /\ readings.list[i].current
                    \in NumsIn(LabelText(VenueBlock, label, readings.list[i].area))
              /\ readings.list[i].capacity
                    \in NumsIn(LabelText(VenueBlock, label, readings.list[i].area))

\* how many times the browser navigated to the target page in this run
TargetNavs == Cardinality({i \in 1..Len(navs) : navs[i] = SOURCE_URL})

\* fetch_with_playwright has returned normally
Returned == pc \in {"main", "done"} /\ exit # <<ExitHard>>

\* C18: browser.close() has run exactly once when fetch_with_playwright has
\* returned normally and not at all while the page is still operated on; a run
\* navigates to the target page at most twice, runs try_login at most twice
\* and navigates at most three times.
C18_BrowserLifecycle ==
    /\ Returned => closes = 1
    /\ ~Returned => closes = 0
    /\ TargetNavs <= 2
    /\ logins <= 2
    /\ Len(navs) <= 3

\* the longest path: two try_login calls and three navigations, then the return
C18_Witness ==
    /\ Returned /\ closes = 1
    /\ logins = 2 /\ TargetNavs = 2 /\ Len(navs) = 3

\* the pair of a match in a window, <<>> when there is no match
PairOf(w, m) == IF m = <<>> THEN <<>> ELSE Groups(w, m)

\* what the strict and the loose pattern find after the first occurrence of a
\* label in the block
StrictPair(label, block) ==
    IF Find(label, block, 1) = 0 THEN <<>>
    ELSE PairOf(Window(block, Find(label, block, 1)),
                SearchStrict(Window(block, Find(label, block, 1))))

LoosePair(label, block) ==
    IF Find(label, block, 1) = 0 THEN <<>>
    ELSE PairOf(Window(block, Find(label, block, 1)),
                SearchLoose(Window(block, Find(label, block, 1))))

\* the first of two attempts that finds a pair, <<>> when both fail
FirstPair(first, second) == IF first = <<>> THEN second ELSE first

\* the attempts for an area in the order of the claim: label by label, native
\* label first, and for one label the strict pattern before the loose one
PoolTries(block) ==
    FirstPair(StrictPair(POOL, block),
    FirstPair(LoosePair(POOL, block),
    FirstPair(StrictPair(SWIMMING_POOL, block),
              LoosePair(SWIMMING_POOL, block))))

GymTries(block) ==
    FirstPair(StrictPair(GYM, block),
    FirstPair(LoosePair(GYM, block),
    FirstPair(StrictPair(FITNESS, block),
    FirstPair(LoosePair(FITNESS, block),
    FirstPair(StrictPair(GYM_EN, block),
              LoosePair(GYM_EN, block))))))

ReadingOf(area, pair) ==
    IF pair = <<>> THEN <<>>
    ELSE <<Reading(now, TARGET_CENTER, area, pair[1], pair[2])>>

\* C17: the readings of a page with the venue are at most one Reading for the
\* pool followed by at most one for the gym, each named by the native label of
\* its area and carrying the pair of the first attempt that finds one, the
\* attempts running label by label (native label first) and, for one label,
\* strict pattern before loose pattern.
C17_LabelPriority ==
    (pc = "parsed" /\ readings.some) =>
        readings.list = ReadingOf(POOL, PoolTries(VenueBlock))
                           \o ReadingOf(GYM, GymTries(VenueBlock))

\* both priorities decide: the pool label is followed by a loose and by a
\* different strict match, the native and the English gym label by different
\* pairs
C17_Witness ==
    /\ pc = "parsed" /\ Len(readings.list) = 2
    /\ LoosePair(POOL, VenueBlock) # <<>>
    /\ StrictPair(POOL, VenueBlock) \notin {<<>>, LoosePair(POOL, VenueBlock)}
    /\ StrictPair(GYM, VenueBlock) # <<>>
    /\ StrictPair(GYM_EN, VenueBlock) \notin {<<>>, StrictPair(GYM, VenueBlock)}

====
